---- MODULE Spec2Model ----
(***************************************************************************)
(* Model of the go-util helpers: values.Pick / values.PickHasValue /       *)
(* values.IsZero, files.CreateUniqueDirectory, paths.IsSubPath,            *)
(* files.WaitForFileExists, files.CopyDirPreserve, paths.FindProjectRoot,  *)
(* validation.ValidateStructFields and files.MoveFile.                     *)
(*                                                                         *)
(* A Go value is a record [t, i, s, e]:                                    *)
(*   t  the dynamic type name ("nil" for the nil interface value)          *)
(*   i  the integer payload: the number of an integer or float, 0/1 of a   *)
(*      bool, the address held by a pointer (0 is nil), the nil-ness of a  *)
(*      slice or map header (0 is nil, 1 is allocated), field foo of       *)
(*      TestStruct                                                         *)
(*   s  the string payload: the text of a string or DateLayout, field B of *)
(*      A, field bar of TestStruct, and for floats the class of the number *)
(*      ("" finite, "-0" negative zero, "NaN")                             *)
(*   e  the elements of a slice, the values of a map, field X of Holder    *)
(***************************************************************************)
EXTENDS Integers, Sequences, FiniteSets, TLC

VARIABLES
    T,            \* values: the type argument the generic function is instantiated with
    m,            \* values: the map passed to Pick
    key,          \* values: the key passed to Pick
    defaultValue, \* values: the default passed to Pick
    values,       \* values: the variadic candidates passed to PickHasValue
    v,            \* values: the argument passed to IsZero
    heap,         \* values: what each address points to
    call,         \* values: the function that returned last ("none" before any call)
    ret,          \* values: the value Pick / PickHasValue returned last
    retZero,      \* values: the boolean IsZero returned last
    panicked,     \* values: TRUE iff the last call ended in a run-time panic
    fs,           \* files: the kind ("dir" or "file") of every path that exists
    writable,     \* files: TRUE iff the file system lets a directory be made
    dir,          \* files: the dir argument of CreateUniqueDirectory
    name,         \* files: the name argument of CreateUniqueDirectory
    maximumAttempts, \* files: the maximumAttempts argument
    fsBefore,     \* files: the file system as the last call found it
    created,      \* files: what the last call of CreateUniqueDirectory returned
    path,         \* paths: the path argument of IsSubPath
    basePath,     \* paths: the basePath argument of IsSubPath
    subPath,      \* paths: what IsSubPath returned ("none" before the call)
    now,          \* wait: the time since WaitForFileExists was called, in half intervals
    timeout,      \* wait: the timeout argument, in half intervals
    timerC,       \* wait: TRUE iff timer.C holds a value
    tickerC,      \* wait: TRUE iff ticker.C holds a value
    file,         \* wait: what os.Stat(filePath) finds: "absent", "present", "unreadable"
    existed,      \* wait: TRUE iff the file was present at some moment of the call
    waitRet,      \* wait: what WaitForFileExists returned ("none" while it waits)
    srcTree,      \* copy: the tree at src: relative path -> [kind, content]
    dstTree,      \* copy: the tree at dst
    dstBefore,    \* copy: the tree at dst as the last call found it
    dstWritable,  \* copy: TRUE iff files and directories can be made under dst
    copyRet,      \* copy: what CopyDirPreserve returned ("none" before the call)
    cwd,          \* root: the working directory, as the elements of its absolute path
    getwdFails,   \* root: TRUE iff os.Getwd returns an error
    markerDirs,   \* root: the directories that hold an entry named markerFile
    rootPc,       \* root: where FindProjectRoot is: "getwd", "loop" or "done"
    rootDir,      \* root: the local variable dir
    rootRet,      \* root: the (path, error) FindProjectRoot returned
    input,        \* validation: the value passed to ValidateStructFields
    validRet,     \* validation: "nil", "error" or "panic" ("none" before the call)
    disk,         \* move: the node at every path that exists
    diskBefore,   \* move: the disk as the last call of MoveFile found it
    moveSrc,      \* move: the src argument of MoveFile
    moveDst,      \* move: the dst argument of MoveFile
    failAt,       \* move: the system call the environment lets fail ("none" for none)
    moveRet       \* move: "nil", or the call whose error was returned ("none" before the call)

valueVars == <<T, m, key, defaultValue, values, v, heap, call, ret, retZero, panicked>>

fileVars == <<fs, writable, dir, name, maximumAttempts, fsBefore, created>>

pathVars == <<path, basePath, subPath>>

waitVars == <<now, timeout, timerC, tickerC, file, existed, waitRet>>

copyVars == <<srcTree, dstTree, dstBefore, dstWritable, copyRet>>

rootVars == <<cwd, getwdFails, markerDirs, rootPc, rootDir, rootRet>>

validationVars == <<input, validRet>>

moveVars == <<disk, diskBefore, moveSrc, moveDst, failAt, moveRet>>

vars == <<valueVars, fileVars, pathVars, waitVars, copyVars, rootVars, validationVars, moveVars>>

(***************************************************************************)
(* Bounds                                                                  *)
(***************************************************************************)
MaxCandidates == 3

MaxAttempts == 4

MaxDepth == 3

MaxTimeout == 5

MaxFields == 2

(***************************************************************************)
(* Types                                                                   *)
(***************************************************************************)
SignedTypes == {"int", "int8", "int16", "int32", "int64"}

UnsignedTypes == {"uint", "uint8", "uint16", "uint32", "uint64"}

FloatTypes == {"float32", "float64"}

NumericTypes == SignedTypes \cup UnsignedTypes \cup FloatTypes

PrimitiveTypes == {"string", "bool"} \cup NumericTypes

PtrTo(t) == "*" \o t

PrimitivePtrTypes == {PtrTo(t) : t \in PrimitiveTypes}

StructTypes == {"A", "struct{}", "TestStruct", "Holder"}

SliceMapTypes == {"[]int", "map[string]int"}

DefinedTypes == {"DateLayout"}

OtherPtrTypes == {"*A"}

ConcreteTypes ==
    PrimitiveTypes \cup PrimitivePtrTypes \cup StructTypes \cup SliceMapTypes
        \cup DefinedTypes \cup OtherPtrTypes

AllTypes == ConcreteTypes \cup {"any"}

PtrTypes == PrimitivePtrTypes \cup OtherPtrTypes

Elem(t) == CHOOSE b \in PrimitiveTypes \cup {"A"} : PtrTo(b) = t

(***************************************************************************)
(* Values                                                                  *)
(***************************************************************************)
Val(t, i, s, e) == [t |-> t, i |-> i, s |-> s, e |-> e]

NilInterface == Val("nil", 0, "", <<>>)

ZeroOf(t) ==
    IF t = "any" THEN NilInterface ELSE Val(t, 0, "", <<>>)

Strings == {"", "x", "filled"}

ValuesOf(t) ==
    IF t \in {"string", "DateLayout", "A"} THEN {Val(t, 0, s, <<>>) : s \in Strings}
    ELSE IF t = "bool" THEN {Val(t, i, "", <<>>) : i \in {0, 1}}
    ELSE IF t \in SignedTypes THEN {Val(t, i, "", <<>>) : i \in {-1, 0, 1}}
    ELSE IF t \in UnsignedTypes THEN {Val(t, i, "", <<>>) : i \in {0, 1, 2}}
    ELSE IF t \in FloatTypes
        THEN {Val(t, i, "", <<>>) : i \in {-1, 0, 1}}
                \cup {Val(t, 0, "-0", <<>>), Val(t, 0, "NaN", <<>>)}
    ELSE IF t \in PtrTypes THEN {Val(t, a, "", <<>>) : a \in 0..3}
    ELSE IF t = "struct{}" THEN {Val(t, 0, "", <<>>)}
    ELSE IF t = "TestStruct"
        THEN {Val(t, i, s, <<>>) : i \in {0, 1}, s \in {"", "x"}}
    ELSE IF t = "Holder"
        THEN {Val(t, 0, "", <<>>), Val(t, 1, "", <<>>), Val(t, 1, "", <<7>>)}
    ELSE IF t \in SliceMapTypes
        THEN {Val(t, 0, "", <<>>), Val(t, 1, "", <<>>), Val(t, 1, "", <<7>>)}
    ELSE \* "any": the nil interface, or an interface holding a concrete value
        {NilInterface, Val("int", 0, "", <<>>), Val("int", 1, "", <<>>),
         Val("A", 0, "", <<>>), Val("A", 0, "x", <<>>), Val("[]int", 0, "", <<>>)}

(***************************************************************************)
(* The heap: address 0 is nil, addresses 1..3 hold values of the pointee   *)
(* type. Addresses 2 and 3 may hold equal values and are still two         *)
(* different pointers.                                                     *)
(***************************************************************************)
Addrs == 1..3

NonZeroSample(t) ==
    IF t \in {"string", "A"} THEN Val(t, 0, "filled", <<>>) ELSE Val(t, 1, "", <<>>)

HeapsOf(t) ==
    IF t \in PtrTypes
        THEN {[a \in Addrs |-> IF a = 1 THEN ZeroOf(Elem(t))
                               ELSE IF a = 2 THEN NonZeroSample(Elem(t))
                               ELSE x] : x \in ValuesOf(Elem(t))}
        ELSE {[a \in Addrs |-> NilInterface]}

(***************************************************************************)
(* Go's == on two values of one comparable type, and the comparability of  *)
(* a dynamic type (slices, maps and structs holding them are not           *)
(* comparable: == on them inside an interface panics).                     *)
(***************************************************************************)
Comparable(t) == t \notin SliceMapTypes \cup {"Holder"}

GoEq(a, b) ==
    /\ a.t = b.t
    /\ IF a.t \in FloatTypes
          THEN a.s # "NaN" /\ b.s # "NaN" /\ a.i = b.i
          ELSE a = b

(***************************************************************************)
(* values.IsZero (pick.go:36-101). T is the type argument, val the         *)
(* argument boxed into an interface, h the heap. The result is the boolean *)
(* returned and whether the call panicked instead of returning.            *)
(***************************************************************************)
Returned(b) == [ret |-> b, panic |-> FALSE]

Panic == [ret |-> FALSE, panic |-> TRUE]

\* the fourteen pointer cases testing the pointer only: `ptr == nil`
IsZeroPtrNilOnly(val, h) == Returned(val.i = 0)

\* `ptr == nil || *ptr == zero` for the fourteen pointer cases of the switch
IsZeroPtr(val, h) ==
    IF val.i = 0 THEN Returned(TRUE)
    ELSE IF h[val.i].t \in FloatTypes
        THEN Returned(h[val.i].s # "NaN" /\ h[val.i].i = 0)
    ELSE IF h[val.i].t = "string" THEN Returned(h[val.i].s = "")
    ELSE Returned(h[val.i].i = 0)

\* the value cases with `ptr <= 0` in place of `ptr == 0`
IsZeroPrimNotPositive(val) ==
    IF val.t = "string" THEN Returned(val.s = "")
    ELSE Returned(val.s # "NaN" /\ val.i <= 0)

\* the five value cases of the switch
IsZeroPrim(val) ==
    IF val.t = "string" THEN Returned(val.s = "")
    ELSE IF val.t \in FloatTypes THEN Returned(val.s # "NaN" /\ val.i = 0)
    ELSE Returned(val.i = 0)

\* the default case comparing the boxed value with the boxed zero value
IsZeroDefaultComparing(t, val) ==
    IF ZeroOf(t) = NilInterface THEN Returned(val = NilInterface)
    ELSE IF ~Comparable(val.t) THEN Panic
    ELSE Returned(GoEq(val, ZeroOf(t)))

\* the default case: only an interface-typed T has a nil boxed zero value,
\* and val is known to be non-nil here
IsZeroDefault(t, val) ==
    IF ZeroOf(t) = NilInterface THEN Returned(val = NilInterface)
    ELSE Returned(FALSE)

IsZero(t, val, h) ==
    IF val = NilInterface THEN Returned(TRUE)
    ELSE IF val.t \in PrimitivePtrTypes THEN IsZeroPtr(val, h)
    ELSE IF val.t \in PrimitiveTypes THEN IsZeroPrim(val)
    ELSE IsZeroDefault(t, val)

(***************************************************************************)
(* values.PickHasValue (pick.go:19-27): the range loop from index n on.    *)
(***************************************************************************)
RECURSIVE PickHasValueFrom(_, _, _, _)
PickHasValueFrom(t, vals, h, n) ==
    IF n > Len(vals) THEN [ret |-> ZeroOf(t), panic |-> FALSE]
    ELSE IF IsZero(t, vals[n], h).panic THEN [ret |-> ZeroOf(t), panic |-> TRUE]
    ELSE IF ~IsZero(t, vals[n], h).ret THEN [ret |-> vals[n], panic |-> FALSE]
    ELSE PickHasValueFrom(t, vals, h, n + 1)

\* the loop returning from its first iteration whatever the element is
PickHasValueFirstOnly(t, vals, h) ==
    IF Len(vals) > 0 /\ ~IsZero(t, vals[1], h).ret
        THEN [ret |-> vals[1], panic |-> FALSE]
        ELSE [ret |-> ZeroOf(t), panic |-> FALSE]

PickHasValue(t, vals, h) == PickHasValueFrom(t, vals, h, 1)

(***************************************************************************)
(* values.Pick (pick.go:5-10). A map is [isNil, kv]: reading a nil map     *)
(* behaves as reading an empty one.                                        *)
(***************************************************************************)
Keys == {"a", "b"}

MapsOf(t) ==
    {[isNil |-> TRUE, kv |-> [k \in {} |-> ZeroOf(t)]]}
        \cup {[isNil |-> FALSE, kv |-> f] :
                f \in UNION {[D -> ValuesOf(t)] : D \in SUBSET Keys}}

\* v, ok := m[key]
MapIndex(mp, k) ==
    IF ~mp.isNil /\ k \in DOMAIN mp.kv
        THEN [v |-> mp.kv[k], ok |-> TRUE]
        ELSE [v |-> NilInterface, ok |-> FALSE]

\* the lookup testing the value instead of the presence flag
PickPresentNonZero(mp, k, d) ==
    IF MapIndex(mp, k).ok /\ MapIndex(mp, k).v # ZeroOf(d.t)
        THEN MapIndex(mp, k).v ELSE d

Pick(mp, k, d) ==
    IF MapIndex(mp, k).ok THEN MapIndex(mp, k).v ELSE d

(***************************************************************************)
(* Calls. Each call reads its arguments and stores what it returned; the   *)
(* code assigns to none of its arguments.                                  *)
(***************************************************************************)
SeqsUpTo(S, n) == UNION {[1..k -> S] : k \in 0..n}

NilMap(t) == [isNil |-> TRUE, kv |-> [k \in {} |-> ZeroOf(t)]]

InitValues ==
    /\ T \in AllTypes
    /\ heap \in HeapsOf(T)
    /\ \/ /\ m \in MapsOf(T)
          /\ key \in Keys
          /\ defaultValue \in ValuesOf(T)
          /\ values = <<>>
          /\ v = ZeroOf(T)
       \/ /\ m = NilMap(T)
          /\ key = "a"
          /\ defaultValue = ZeroOf(T)
          /\ values \in SeqsUpTo(ValuesOf(T), MaxCandidates)
          /\ v \in ValuesOf(T)
    /\ call = "none"
    /\ ret = ZeroOf(T)
    /\ retZero = FALSE
    /\ panicked = FALSE

\* the call of Pick writing the default into the map on a miss
CallPickStoringDefault ==
    /\ call' = "Pick"
    /\ ret' = Pick(m, key, defaultValue)
    /\ retZero' = FALSE
    /\ panicked' = FALSE
    /\ m' = IF MapIndex(m, key).ok THEN m
            ELSE [isNil |-> FALSE,
                  kv |-> [k \in DOMAIN m.kv \cup {key} |->
                            IF k = key THEN defaultValue ELSE m.kv[k]]]
    /\ UNCHANGED <<T, key, defaultValue, values, v, heap>>

CallPick ==
    /\ call' = "Pick"
    /\ ret' = Pick(m, key, defaultValue)
    /\ retZero' = FALSE
    /\ panicked' = FALSE
    /\ UNCHANGED <<T, m, key, defaultValue, values, v, heap>>

CallPickHasValue ==
    /\ call' = "PickHasValue"
    /\ ret' = PickHasValue(T, values, heap).ret
    /\ retZero' = FALSE
    /\ panicked' = PickHasValue(T, values, heap).panic
    /\ UNCHANGED <<T, m, key, defaultValue, values, v, heap>>

CallIsZero ==
    /\ call' = "IsZero"
    /\ ret' = ZeroOf(T)
    /\ retZero' = IsZero(T, v, heap).ret
    /\ panicked' = IsZero(T, v, heap).panic
    /\ UNCHANGED <<T, m, key, defaultValue, values, v, heap>>

IdleValues ==
    /\ T = "int"
    /\ m = NilMap("int")
    /\ key = "a"
    /\ defaultValue = ZeroOf("int")
    /\ values = <<>>
    /\ v = ZeroOf("int")
    /\ heap \in HeapsOf("int")
    /\ call = "none"
    /\ ret = ZeroOf("int")
    /\ retZero = FALSE
    /\ panicked = FALSE

(***************************************************************************)
(* files.CreateUniqueDirectory (part_000:61-78) over a file system that    *)
(* maps every existing path to "dir" or "file".                            *)
(***************************************************************************)
Digit(d) == SubSeq("0123456789", d + 1, d + 1)

\* strconv.Itoa for a non-negative number
RECURSIVE Itoa(_)
Itoa(n) == IF n < 10 THEN Digit(n) ELSE Itoa(n \div 10) \o Digit(n % 10)

\* filepath.Join of a clean directory and a plain name
Join(d, n) == d \o "/" \o n

\* os.Stat of a path directly under parent
Stat(f, parent, p) ==
    IF parent \in DOMAIN f /\ f[parent] = "file" THEN "ENOTDIR"
    ELSE IF p \in DOMAIN f THEN "nil"
    ELSE "ENOENT"

\* files.FileExists (symlink.go:115-122)
FileExists(f, parent, p) ==
    IF Stat(f, parent, p) = "nil" THEN TRUE
    ELSE IF Stat(f, parent, p) = "ENOENT" THEN FALSE
    ELSE FALSE

\* os.MkdirAll of a path directly under parent: the missing parent is made too
MkdirAll(f, w, parent, p) ==
    IF parent \in DOMAIN f /\ f[parent] = "file" THEN [err |-> TRUE, fs |-> f]
    ELSE IF p \in DOMAIN f THEN [err |-> f[p] # "dir", fs |-> f]
    ELSE IF ~w THEN [err |-> TRUE, fs |-> f]
    ELSE [err |-> FALSE,
          fs |-> [x \in DOMAIN f \cup {parent, p} |->
                    IF x \in DOMAIN f THEN f[x] ELSE "dir"]]

\* n := name; if i > 0 { n += strconv.Itoa(i) }
Candidate(nm, i) == IF i > 0 THEN nm \o Itoa(i) ELSE nm

Failed(f) == [path |-> "", err |-> TRUE, fs |-> f]

\* the loop with `i <= maximumAttempts` as its condition
RECURSIVE CreateUniqueDirectoryFromInclusive(_, _, _, _, _, _)
CreateUniqueDirectoryFromInclusive(f, w, d, nm, max, i) ==
    IF ~(i <= max) THEN Failed(f)
    ELSE IF ~FileExists(f, d, Join(d, Candidate(nm, i)))
        THEN IF MkdirAll(f, w, d, Join(d, Candidate(nm, i))).err
                THEN Failed(MkdirAll(f, w, d, Join(d, Candidate(nm, i))).fs)
                ELSE [path |-> Join(d, Candidate(nm, i)), err |-> FALSE,
                      fs |-> MkdirAll(f, w, d, Join(d, Candidate(nm, i))).fs]
    ELSE CreateUniqueDirectoryFromInclusive(f, w, d, nm, max, i + 1)

RECURSIVE CreateUniqueDirectoryFrom(_, _, _, _, _, _)
CreateUniqueDirectoryFrom(f, w, d, nm, max, i) ==
    IF ~(i < max) THEN Failed(f)
    ELSE IF ~FileExists(f, d, Join(d, Candidate(nm, i)))
        THEN IF MkdirAll(f, w, d, Join(d, Candidate(nm, i))).err
                THEN Failed(MkdirAll(f, w, d, Join(d, Candidate(nm, i))).fs)
                ELSE [path |-> Join(d, Candidate(nm, i)), err |-> FALSE,
                      fs |-> MkdirAll(f, w, d, Join(d, Candidate(nm, i))).fs]
    ELSE CreateUniqueDirectoryFrom(f, w, d, nm, max, i + 1)

CreateUniqueDirectory(f, w, d, nm, max) ==
    CreateUniqueDirectoryFrom(f, w, d, nm, max, 0)

Dirs == {"/d", "/f", "/n"}

Names == {"a", "log"}

BaseFs == [x \in {"/d", "/f"} |-> IF x = "/d" THEN "dir" ELSE "file"]

NotCalled == [path |-> "", err |-> FALSE]

\* "/d" is a directory holding any of the candidates as a directory or a
\* file, "/f" is a regular file and "/n" does not exist
InitFiles ==
    /\ dir \in Dirs
    /\ name \in Names
    /\ maximumAttempts \in 0..MaxAttempts
    /\ writable \in BOOLEAN
    /\ \E E \in SUBSET {Join("/d", Candidate(name, i)) : i \in 0..(MaxAttempts - 1)} :
         \E kind \in [E -> {"dir", "file"}] :
            fs = [x \in DOMAIN BaseFs \cup E |->
                    IF x \in E THEN kind[x] ELSE BaseFs[x]]
    /\ fsBefore = fs
    /\ created = NotCalled

IdleFiles ==
    /\ dir = "/d"
    /\ name = "a"
    /\ maximumAttempts = 0
    /\ writable = TRUE
    /\ fs = BaseFs
    /\ fsBefore = fs
    /\ created = NotCalled

CallCreateUniqueDirectory ==
    /\ fsBefore' = fs
    /\ created' =
         [path |-> CreateUniqueDirectory(fs, writable, dir, name, maximumAttempts).path,
          err |-> CreateUniqueDirectory(fs, writable, dir, name, maximumAttempts).err]
    /\ fs' = CreateUniqueDirectory(fs, writable, dir, name, maximumAttempts).fs
    /\ UNCHANGED <<writable, dir, name, maximumAttempts>>

(***************************************************************************)
(* paths.IsSubPath (part_002:48-54). A clean path is [abs, comps]: whether *)
(* it is rooted, and its elements; a relative path may start with ".."     *)
(* elements, and the empty relative path is ".".                           *)
(***************************************************************************)
Elements == {"a", "b", "..a"}

Separator == "/"

CleanPaths ==
    {[abs |-> TRUE, comps |-> c] : c \in SeqsUpTo(Elements, MaxDepth)}
      \cup {[abs |-> FALSE, comps |-> c] : c \in SeqsUpTo(Elements, MaxDepth)}
      \cup {[abs |-> FALSE, comps |-> <<"..">> \o c] :
                c \in SeqsUpTo(Elements \cup {".."}, MaxDepth - 1)}

\* a clean path never has ".." after a named element
IsClean(p) ==
    \A n \in 1..Len(p.comps) :
        p.comps[n] = ".." => (~p.abs /\ \A k \in 1..n : p.comps[k] = "..")

RECURSIVE JoinElements(_)
JoinElements(c) ==
    IF Len(c) = 0 THEN ""
    ELSE IF Len(c) = 1 THEN c[1]
    ELSE c[1] \o Separator \o JoinElements(Tail(c))

\* the number of leading elements two paths share
RECURSIVE CommonLen(_, _)
CommonLen(b, t) ==
    IF Len(b) = 0 \/ Len(t) = 0 \/ b[1] # t[1] THEN 0
    ELSE 1 + CommonLen(Tail(b), Tail(t))

\* filepath.Rel(base, targ) on clean paths
Rel(base, targ) ==
    LET n == CommonLen(base.comps, targ.comps)
        b == SubSeq(base.comps, n + 1, Len(base.comps))
        t == SubSeq(targ.comps, n + 1, Len(targ.comps))
    IN  IF base = targ THEN [rel |-> ".", err |-> FALSE]
        ELSE IF base.abs # targ.abs THEN [rel |-> "", err |-> TRUE]
        ELSE IF Len(b) > 0 /\ b[1] = ".." THEN [rel |-> "", err |-> TRUE]
        ELSE IF Len(b) > 0
            THEN [rel |-> JoinElements([k \in 1..Len(b) |-> ".."] \o t), err |-> FALSE]
        ELSE [rel |-> JoinElements(t), err |-> FALSE]

\* strings.HasPrefix
HasPrefix(s, prefix) ==
    Len(s) >= Len(prefix) /\ SubSeq(s, 1, Len(prefix)) = prefix

IsSubPath(p, base) ==
    IF Rel(base, p).err THEN FALSE
    ELSE ~HasPrefix(Rel(base, p).rel, ".." \o Separator)

InitPaths ==
    /\ path \in {p \in CleanPaths : IsClean(p)}
    /\ basePath \in {p \in CleanPaths : IsClean(p)}
    /\ subPath = "none"

IdlePaths ==
    /\ path = [abs |-> TRUE, comps |-> <<>>]
    /\ basePath = [abs |-> TRUE, comps |-> <<>>]
    /\ subPath = "none"

CallIsSubPath ==
    /\ subPath' = IF IsSubPath(path, basePath) THEN "true" ELSE "false"
    /\ UNCHANGED <<path, basePath>>

(***************************************************************************)
(* files.WaitForFileExists (symlink.go:132-158). Time is counted in halves *)
(* of the check interval. The goroutine handles a ready channel before     *)
(* time moves on; when both channels are ready select takes either.        *)
(***************************************************************************)
CheckInterval == 2

FileStates == {"absent", "present", "unreadable"}

InitWaiting ==
    /\ now = 0
    /\ timeout \in 0..MaxTimeout
    /\ timerC = (timeout = 0)
    /\ tickerC = FALSE
    /\ file \in FileStates
    /\ existed = (file = "present")
    /\ waitRet = "none"

IdleWait ==
    /\ now = 0
    /\ timeout = 0
    /\ timerC = FALSE
    /\ tickerC = FALSE
    /\ file = "absent"
    /\ existed = FALSE
    /\ waitRet = "idle"

\* time passes while the goroutine is blocked in select
Elapse ==
    /\ waitRet = "none"
    /\ ~timerC
    /\ ~tickerC
    /\ now' = now + 1
    /\ timerC' = (now + 1 = timeout)
    /\ tickerC' = ((now + 1) % CheckInterval = 0)
    /\ UNCHANGED <<timeout, file, existed, waitRet>>

\* another process creates, removes or protects the file
FileChanges ==
    /\ waitRet = "none"
    /\ \E f \in FileStates \ {file} :
        /\ file' = f
        /\ existed' = (existed \/ f = "present")
    /\ UNCHANGED <<now, timeout, timerC, tickerC, waitRet>>

\* case <-timer.C
SelectTimer ==
    /\ waitRet = "none"
    /\ timerC
    /\ timerC' = FALSE
    /\ waitRet' = "false"
    /\ UNCHANGED <<now, timeout, tickerC, file, existed>>

\* case <-ticker.C
SelectTicker ==
    /\ waitRet = "none"
    /\ tickerC
    /\ tickerC' = FALSE
    /\ waitRet' = IF file = "present" THEN "true"
                  ELSE IF file = "unreadable" THEN "false"
                  ELSE "none"
    /\ UNCHANGED <<now, timeout, timerC, file, existed>>

WaitForFileExists == Elapse \/ FileChanges \/ SelectTimer \/ SelectTicker

(***************************************************************************)
(* files.CopyDirPreserve (part_000:172-228). A tree maps the paths that    *)
(* exist, relative to its root (the root itself is <<>>), to a node; src   *)
(* and dst are two disjoint trees.                                         *)
(***************************************************************************)
EntryNames == <<"a", "b">>

TreePaths ==
    {<<>>, <<"a">>, <<"b">>, <<"a", "a">>, <<"a", "b">>, <<"a", "a", "a">>}

DirNode == [kind |-> "dir", content |-> ""]

FileNode(c) == [kind |-> "file", content |-> c]

SymlinkNode == [kind |-> "symlink", content |-> ""]

ParentOf(q) == SubSeq(q, 1, Len(q) - 1)

\* every path that exists lies in a directory that exists
WellFormed(t) ==
    \A q \in DOMAIN t :
        q # <<>> => (ParentOf(q) \in DOMAIN t /\ t[ParentOf(q)].kind = "dir")

TreesOf(nodes) ==
    {t \in UNION {[D -> nodes] : D \in SUBSET TreePaths} : WellFormed(t)}

\* the tree with one more path, or one path replaced
WithNode(t, q, n) == [x \in DOMAIN t \cup {q} |-> IF x = q THEN n ELSE t[x]]

\* files.CopyFile (symlink.go:395-432) of the file at q of the source tree
CopyFile(S, D, w, q) ==
    IF q \notin DOMAIN S \/ S[q].kind = "dir" THEN [err |-> TRUE, dst |-> D]
    ELSE IF q \in DOMAIN D /\ D[q].kind = "dir" THEN [err |-> TRUE, dst |-> D]
    ELSE IF q \notin DOMAIN D /\ ~w THEN [err |-> TRUE, dst |-> D]
    ELSE [err |-> FALSE, dst |-> WithNode(D, q, FileNode(S[q].content))]

\* os.MkdirAll(dst) for a path whose parent directory exists
MkdirDst(D, w, q) ==
    IF q \in DOMAIN D THEN [err |-> D[q].kind # "dir", dst |-> D]
    ELSE IF ~w THEN [err |-> TRUE, dst |-> D]
    ELSE [err |-> FALSE, dst |-> WithNode(D, q, DirNode)]

RECURSIVE CopyDirPreserveAt(_, _, _, _)
RECURSIVE CopyEntriesOverwriting(_, _, _, _, _)
RECURSIVE CopyEntries(_, _, _, _, _)

\* the loop copying every file, whether or not dst has it
CopyEntriesOverwriting(S, D, w, q, n) ==
    IF n > Len(EntryNames) THEN [err |-> FALSE, dst |-> D]
    ELSE LET e == Append(q, EntryNames[n]) IN
        IF e \notin DOMAIN S THEN CopyEntriesOverwriting(S, D, w, q, n + 1)
        ELSE IF S[e].kind = "dir"
            THEN IF CopyDirPreserveAt(S, D, w, e).err
                    THEN [err |-> TRUE, dst |-> CopyDirPreserveAt(S, D, w, e).dst]
                    ELSE CopyEntriesOverwriting(S, CopyDirPreserveAt(S, D, w, e).dst, w, q, n + 1)
        ELSE IF S[e].kind = "symlink" THEN CopyEntriesOverwriting(S, D, w, q, n + 1)
        ELSE IF CopyFile(S, D, w, e).err THEN [err |-> TRUE, dst |-> D]
        ELSE CopyEntriesOverwriting(S, CopyFile(S, D, w, e).dst, w, q, n + 1)

\* for _, entry := range entries, from the n-th entry on, in name order
CopyEntries(S, D, w, q, n) ==
    IF n > Len(EntryNames) THEN [err |-> FALSE, dst |-> D]
    ELSE LET e == Append(q, EntryNames[n]) IN
        IF e \notin DOMAIN S THEN CopyEntries(S, D, w, q, n + 1)
        ELSE IF S[e].kind = "dir"
            THEN IF CopyDirPreserveAt(S, D, w, e).err
                    THEN [err |-> TRUE, dst |-> CopyDirPreserveAt(S, D, w, e).dst]
                    ELSE CopyEntries(S, CopyDirPreserveAt(S, D, w, e).dst, w, q, n + 1)
        ELSE IF S[e].kind = "symlink" THEN CopyEntries(S, D, w, q, n + 1)
        ELSE IF e \notin DOMAIN D
            THEN IF CopyFile(S, D, w, e).err THEN [err |-> TRUE, dst |-> D]
                 ELSE CopyEntries(S, CopyFile(S, D, w, e).dst, w, q, n + 1)
        ELSE CopyEntries(S, D, w, q, n + 1)

\* CopyDirPreserve(src/q, dst/q)
CopyDirPreserveAt(S, D, w, q) ==
    IF q \notin DOMAIN S THEN [err |-> TRUE, dst |-> D]
    ELSE IF S[q].kind # "dir" THEN [err |-> TRUE, dst |-> D]
    ELSE IF MkdirDst(D, w, q).err THEN [err |-> TRUE, dst |-> D]
    ELSE CopyEntries(S, MkdirDst(D, w, q).dst, w, q, 1)

InitTrees ==
    /\ srcTree \in TreesOf({DirNode, FileNode("src"), SymlinkNode})
    /\ dstTree \in TreesOf({DirNode, FileNode("dst")})
    /\ dstBefore = dstTree
    /\ dstWritable \in BOOLEAN
    /\ copyRet = "none"

IdleCopy ==
    /\ srcTree = [q \in {<<>>} |-> DirNode]
    /\ dstTree = [q \in {<<>>} |-> DirNode]
    /\ dstBefore = dstTree
    /\ dstWritable = TRUE
    /\ copyRet = "idle"

CallCopyDirPreserve ==
    /\ copyRet \in {"none", "nil", "error"}
    /\ dstBefore' = dstTree
    /\ dstTree' = CopyDirPreserveAt(srcTree, dstTree, dstWritable, <<>>).dst
    /\ copyRet' = IF CopyDirPreserveAt(srcTree, dstTree, dstWritable, <<>>).err
                    THEN "error" ELSE "nil"
    /\ UNCHANGED <<srcTree, dstWritable>>

(***************************************************************************)
(* paths.FindProjectRoot (relative.go:25-44). A directory is the sequence  *)
(* of the elements of its absolute path; <<>> is the file system root.     *)
(***************************************************************************)
DirNames == {"a", "b"}

\* filepath.Dir of a clean absolute path: the root is its own parent
Dir(d) == IF Len(d) = 0 THEN d ELSE SubSeq(d, 1, Len(d) - 1)

\* the working directory and its ancestors up to the root
Ancestors(d) == {SubSeq(d, 1, n) : n \in 0..Len(d)}

NoResult == [path |-> <<>>, err |-> "none"]

InitWalk ==
    /\ cwd \in SeqsUpTo(DirNames, MaxDepth)
    /\ getwdFails \in BOOLEAN
    /\ markerDirs \in SUBSET (Ancestors(cwd) \cup {Append(cwd, "a")})
    /\ rootPc = "getwd"
    /\ rootDir = <<>>
    /\ rootRet = NoResult

IdleRoot ==
    /\ cwd = <<>>
    /\ getwdFails = FALSE
    /\ markerDirs = {}
    /\ rootPc = "idle"
    /\ rootDir = <<>>
    /\ rootRet = NoResult

\* dir, err := os.Getwd()
Getwd ==
    /\ rootPc = "getwd"
    /\ IF getwdFails
          THEN /\ rootPc' = "done"
               /\ rootRet' = [path |-> <<>>, err |-> "getwd"]
               /\ UNCHANGED rootDir
          ELSE /\ rootPc' = "loop"
               /\ rootDir' = cwd
               /\ UNCHANGED rootRet
    /\ UNCHANGED <<cwd, getwdFails, markerDirs>>

\* one iteration of a loop written `for dir != "/"`: the root is never tested
IterateBelowRoot ==
    /\ rootPc = "loop"
    /\ IF rootDir # <<>> /\ rootDir \in markerDirs
          THEN /\ rootPc' = "done"
               /\ rootRet' = [path |-> rootDir, err |-> "nil"]
               /\ UNCHANGED rootDir
          ELSE IF rootDir = <<>>
          THEN /\ rootPc' = "done"
               /\ rootRet' = [path |-> <<>>, err |-> "project root not found"]
               /\ UNCHANGED rootDir
          ELSE /\ rootDir' = Dir(rootDir)
               /\ UNCHANGED <<rootPc, rootRet>>
    /\ UNCHANGED <<cwd, getwdFails, markerDirs>>

\* one iteration of the loop: test the marker, then step to the parent
Iterate ==
    /\ rootPc = "loop"
    /\ IF rootDir \in markerDirs
          THEN /\ rootPc' = "done"
               /\ rootRet' = [path |-> rootDir, err |-> "nil"]
               /\ UNCHANGED rootDir
          ELSE IF Dir(rootDir) = rootDir
          THEN /\ rootPc' = "done"
               /\ rootRet' = [path |-> <<>>, err |-> "project root not found"]
               /\ UNCHANGED rootDir
          ELSE /\ rootDir' = Dir(rootDir)
               /\ UNCHANGED <<rootPc, rootRet>>
    /\ UNCHANGED <<cwd, getwdFails, markerDirs>>

FindProjectRoot == Getwd \/ Iterate

(***************************************************************************)
(* validation.ValidateStructFields and IsStructFieldEmpty                  *)
(* (structs.go:9-71). A struct field is [kind, tag, exported, i, s,        *)
(* fields]: the kind of its type, its required tag ("" when absent),       *)
(* whether its name is exported, its payload (the number, 0/1 of a bool,   *)
(* 0 for a nil pointer, the length of a slice; the text of a string) and,  *)
(* for a struct, its own fields.                                           *)
(***************************************************************************)
Field(k, tag, ex, i, str, flds) ==
    [kind |-> k, tag |-> tag, exported |-> ex, i |-> i, s |-> str, fields |-> flds]

LeafFields ==
    {Field("string", "", TRUE, 0, "", <<>>),
     Field("string", "", TRUE, 0, "x", <<>>),
     Field("string", "false", TRUE, 0, "", <<>>),
     Field("int64", "true", TRUE, 0, "", <<>>),
     Field("int64", "true", TRUE, 7, "", <<>>),
     Field("bool", "", TRUE, 1, "", <<>>),
     Field("slice", "", TRUE, 1, "", <<>>)}

StringLeaves == {f \in LeafFields : f.kind = "string" /\ f.tag = ""}

StructFieldsOf(contents, exps) ==
    {Field("struct", tag, ex, 0, "", c) :
        tag \in {"", "false"}, ex \in exps, c \in contents}

InnerStructs == StructFieldsOf(SeqsUpTo(StringLeaves, 1), {TRUE})

OuterStructs == StructFieldsOf(SeqsUpTo(StringLeaves \cup InnerStructs, 1), BOOLEAN)

\* the values passed in: a struct, a pointer (to a struct, to a string, or
\* nil), a string, or the nil interface, whose reflect.Value is invalid
Inputs ==
    {Field(k, "", TRUE, 1, "", flds) :
        k \in {"struct", "ptr"}, flds \in SeqsUpTo(LeafFields \cup OuterStructs, MaxFields)}
      \cup {Field("ptr", "", TRUE, 0, "", <<>>),
            Field("ptr", "", TRUE, 1, "x", <<>>),
            Field("string", "", TRUE, 0, "x", <<>>),
            Field("invalid", "", TRUE, 0, "", <<>>)}

\* a pointer input that points to a struct (and not to a string)
PointsToStruct(f) == f.kind = "ptr" /\ f.i # 0 /\ f.s = ""

\* reflect.Value.String: the text of a string, "<T Value>" for any other kind
ValueString(f) ==
    IF f.kind = "string" THEN f.s ELSE "<" \o f.kind \o " Value>"

DecimalDigits == {"0", "1", "2", "3", "4", "5", "6", "7", "8", "9"}

\* strconv.ParseInt / ParseUint / ParseFloat succeed on a run of digits
ParsesAsNumber(str) ==
    /\ Len(str) > 0
    /\ \A n \in 1..Len(str) : SubSeq(str, n, n) \in DecimalDigits

IsStructFieldEmpty(f) ==
    IF f.kind = "string" THEN Len(f.s) = 0
    ELSE IF f.kind = "bool" THEN f.i = 0
    ELSE IF f.kind \in SignedTypes \cup UnsignedTypes \cup FloatTypes
        THEN ~ParsesAsNumber(ValueString(f))
    ELSE IF f.kind = "ptr" THEN f.i = 0
    ELSE IF f.kind = "slice" THEN f.i = 0
    ELSE IF f.kind = "struct" THEN Len(f.fields) = 0
    ELSE FALSE

\* requiredTag == "" || requiredTag == "true"
Required(f) == f.tag = "" \/ f.tag = "true"

\* the loop over the fields of a struct from field n on; req is whether
\* requiredErrors is non-empty
RECURSIVE ValidateFields(_, _, _)
ValidateFields(flds, n, req) ==
    IF n > Len(flds) THEN (IF req THEN "error" ELSE "nil")
    ELSE IF flds[n].kind = "struct" /\ Required(flds[n])
        THEN IF ~flds[n].exported THEN "panic"
             ELSE IF ValidateFields(flds[n].fields, 1, FALSE) # "nil"
                THEN ValidateFields(flds[n].fields, 1, FALSE)
             ELSE ValidateFields(flds, n + 1, req)
    ELSE IF IsStructFieldEmpty(flds[n]) /\ Required(flds[n])
        THEN ValidateFields(flds, n + 1, TRUE)
    ELSE ValidateFields(flds, n + 1, req)

ValidateStructFields(x) ==
    IF x.kind = "struct" \/ PointsToStruct(x)
        THEN ValidateFields(x.fields, 1, FALSE)
        ELSE "error"

InitInputs ==
    /\ input \in Inputs
    /\ validRet = "none"

IdleValidation ==
    /\ input = Field("invalid", "", TRUE, 0, "", <<>>)
    /\ validRet = "idle"

CallValidateStructFields ==
    /\ validRet \in {"none", "nil", "error", "panic"}
    /\ validRet' = ValidateStructFields(input)
    /\ UNCHANGED input

(***************************************************************************)
(* files.MoveFile (symlink.go:207-236) over a disk that maps every path    *)
(* that exists to a directory or to a file with its content.               *)
(***************************************************************************)
MovePaths == {"p", "q"}

Contents == {"", "x", "y"}

Disks ==
    UNION {[D -> {DirNode} \cup {FileNode(c) : c \in Contents}] : D \in SUBSET MovePaths}

Without(d, q) == [x \in DOMAIN d \ {q} |-> d[x]]

Moved(e, d) == [err |-> e, disk |-> d]

\* os.Create(dst): the file is made, or cut to length 0
Created(d, dst) == WithNode(d, dst, FileNode(""))

\* io.Copy(destinationFile, sourceFile): dst receives what src holds now
Copied(d, src, dst) == WithNode(d, dst, FileNode(d[src].content))

MoveFile(d, src, dst, fail) ==
    IF src \notin DOMAIN d \/ fail = "open" THEN Moved("open", d)
    ELSE IF (dst \in DOMAIN d /\ d[dst].kind = "dir") \/ fail = "create"
        THEN Moved("create", d)
    ELSE IF d[src].kind = "dir" \/ fail = "copy" THEN Moved("copy", Created(d, dst))
    ELSE IF fail = "close" THEN Moved("close", Copied(Created(d, dst), src, dst))
    ELSE IF fail = "remove" THEN Moved("remove", Copied(Created(d, dst), src, dst))
    ELSE Moved("nil", Without(Copied(Created(d, dst), src, dst), src))

InitMoving ==
    /\ disk \in Disks
    /\ diskBefore = disk
    /\ moveSrc \in MovePaths
    /\ moveDst \in MovePaths
    /\ failAt \in {"none", "open", "create", "copy", "close", "remove"}
    /\ moveRet = "none"

IdleMove ==
    /\ disk = [x \in {} |-> DirNode]
    /\ diskBefore = disk
    /\ moveSrc = "p"
    /\ moveDst = "q"
    /\ failAt = "none"
    /\ moveRet = "idle"

CallMoveFile ==
    /\ moveRet # "idle"
    /\ diskBefore' = disk
    /\ disk' = MoveFile(disk, moveSrc, moveDst, failAt).disk
    /\ moveRet' = MoveFile(disk, moveSrc, moveDst, failAt).err
    /\ UNCHANGED <<moveSrc, moveDst, failAt>>

\* the specifications, one per group of operations
Init ==
    InitValues /\ IdleFiles /\ IdlePaths /\ IdleWait /\ IdleCopy /\ IdleRoot /\ IdleValidation /\ IdleMove

Next ==
    (CallPick \/ CallPickHasValue \/ CallIsZero) /\ UNCHANGED <<fileVars, pathVars, waitVars, copyVars, rootVars, validationVars, moveVars>>

Spec == Init /\ [][Next]_vars

InitDir ==
    IdleValues /\ InitFiles /\ IdlePaths /\ IdleWait /\ IdleCopy /\ IdleRoot /\ IdleValidation /\ IdleMove

NextDir ==
    CallCreateUniqueDirectory /\ UNCHANGED <<valueVars, pathVars, waitVars, copyVars, rootVars, validationVars, moveVars>>

SpecDir == InitDir /\ [][NextDir]_vars

InitPath ==
    IdleValues /\ IdleFiles /\ InitPaths /\ IdleWait /\ IdleCopy /\ IdleRoot /\ IdleValidation /\ IdleMove

NextPath ==
    CallIsSubPath /\ UNCHANGED <<valueVars, fileVars, waitVars, copyVars, rootVars, validationVars, moveVars>>

SpecPath == InitPath /\ [][NextPath]_vars

InitWait ==
    IdleValues /\ IdleFiles /\ IdlePaths /\ InitWaiting /\ IdleCopy /\ IdleRoot /\ IdleValidation /\ IdleMove

NextWait ==
    WaitForFileExists /\ UNCHANGED <<valueVars, fileVars, pathVars, copyVars, rootVars, validationVars, moveVars>>

SpecWait == InitWait /\ [][NextWait]_vars

InitCopy ==
    IdleValues /\ IdleFiles /\ IdlePaths /\ IdleWait /\ InitTrees /\ IdleRoot /\ IdleValidation /\ IdleMove

NextCopy ==
    CallCopyDirPreserve /\ UNCHANGED <<valueVars, fileVars, pathVars, waitVars, rootVars, validationVars, moveVars>>

SpecCopy == InitCopy /\ [][NextCopy]_vars

InitRoot ==
    IdleValues /\ IdleFiles /\ IdlePaths /\ IdleWait /\ IdleCopy /\ InitWalk /\ IdleValidation /\ IdleMove

NextRoot ==
    FindProjectRoot /\ UNCHANGED <<valueVars, fileVars, pathVars, waitVars, copyVars, validationVars, moveVars>>

SpecRoot == InitRoot /\ [][NextRoot]_vars

InitValidation ==
    IdleValues /\ IdleFiles /\ IdlePaths /\ IdleWait /\ IdleCopy /\ IdleRoot /\ InitInputs /\ IdleMove

NextValidation ==
    CallValidateStructFields /\ UNCHANGED <<valueVars, fileVars, pathVars, waitVars, copyVars, rootVars, moveVars>>

SpecValidation == InitValidation /\ [][NextValidation]_vars

InitMove ==
    IdleValues /\ IdleFiles /\ IdlePaths /\ IdleWait /\ IdleCopy /\ IdleRoot /\ IdleValidation /\ InitMoving

NextMove ==
    CallMoveFile /\ UNCHANGED <<valueVars, fileVars, pathVars, waitVars, copyVars, rootVars, validationVars>>

SpecMove == InitMove /\ [][NextMove]_vars

(***************************************************************************)
(* Properties of Pick, PickHasValue and IsZero                             *)
(***************************************************************************)
Present == ~m.isNil /\ key \in DOMAIN m.kv

\* C1: Pick returns m[key] whenever key is present in m, also when the stored
\* value is the zero value of V, and returns the default only when key is
\* absent (a nil or empty map included).
ThmC1 ==
    call = "Pick" =>
        /\ Present => ret = m.kv[key]
        /\ ~Present => ret = defaultValue
        /\ (ret = defaultValue /\ Present) => m.kv[key] = defaultValue

\* a present key whose stored value is the zero struct, with a non-zero default
WitC1 ==
    /\ call = "Pick"
    /\ T = "A"
    /\ Present
    /\ m.kv[key] = ZeroOf("A")
    /\ defaultValue # ZeroOf("A")
    /\ ret = ZeroOf("A")

NonZeroIndexes == {n \in 1..Len(values) : ~IsZero(T, values[n], heap).ret}

\* C2: PickHasValue returns the candidate at the lowest index whose IsZero is
\* false (for pointers the very same pointer), however many zero-valued
\* candidates precede it, and the zero value of T when there is none.
ThmC2 ==
    call = "PickHasValue" =>
        IF NonZeroIndexes = {} THEN ret = ZeroOf(T)
        ELSE \E n \in NonZeroIndexes :
                /\ \A k \in NonZeroIndexes : n <= k
                /\ ret = values[n]

\* PickHasValue(nil, pointer to "", pointer to "filled") with a second pointer
\* to an equal string on the heap: the third candidate itself is returned
WitC2 ==
    /\ call = "PickHasValue"
    /\ T = "*string"
    /\ Len(values) = 3
    /\ values[1].i = 0
    /\ values[2].i = 1
    /\ values[3].i = 3
    /\ heap[3] = heap[2]
    /\ ret.i = 3

\* the fields of a struct value, each as a value of its own type
Fields(val) ==
    IF val.t = "A" THEN <<Val("string", 0, val.s, <<>>)>>
    ELSE IF val.t = "TestStruct"
        THEN <<Val("int64", val.i, "", <<>>), Val("string", 0, val.s, <<>>)>>
    ELSE IF val.t = "Holder" THEN <<Val("[]int", val.i, "", val.e)>>
    ELSE <<>>

AllFieldsZero(val) ==
    \A n \in 1..Len(Fields(val)) : Fields(val)[n] = ZeroOf(Fields(val)[n].t)

\* C3: for every struct type IsZero returns true exactly when every field
\* equals its own zero value: true for A{} and struct{}{}, false for A{B: "x"}.
CexC3 ==
    (call = "IsZero" /\ T \in StructTypes) => retZero = AllFieldsZero(v)

ThmC5 ==
    (call = "IsZero" /\ v.t \in PrimitivePtrTypes) =>
        retZero = (v.i = 0 \/ GoEq(heap[v.i], ZeroOf(Elem(v.t))))

\* a non-nil pointer to the zero value of the pointee type is reported as zero
WitC5 ==
    /\ call = "IsZero"
    /\ v.t \in PrimitivePtrTypes
    /\ v.i # 0
    /\ heap[v.i] = ZeroOf(Elem(v.t))
    /\ retZero

\* C6: for every slice or map value IsZero returns true if and only if its
\* length is 0: nil and empty slices and maps are zero, others are not.
CexC6 ==
    (call = "IsZero" /\ T \in SliceMapTypes) => retZero = (Len(v.e) = 0)

ThmC8 ==
    [][/\ m' = m
       /\ values' = values
       /\ heap' = heap
       /\ <<T, key, defaultValue, v>>' = <<T, key, defaultValue, v>>
       /\ (call' = call /\ call # "none") =>
            <<ret, retZero, panicked>>' = <<ret, retZero, panicked>>]_vars

\* Pick has missed on an allocated map and the key is still absent
WitC8 ==
    /\ call = "Pick"
    /\ ~m.isNil
    /\ key \notin DOMAIN m.kv
    /\ ret = defaultValue

(***************************************************************************)
(* Properties of CreateUniqueDirectory                                     *)
(***************************************************************************)
\* name, name1, name2, ... written out
Suffixes == <<"1", "2", "3", "4", "5", "6", "7", "8", "9", "10">>

CandidatePath(i) ==
    IF i = 0 THEN dir \o "/" \o name ELSE dir \o "/" \o name \o Suffixes[i]

\* the attempts whose candidate did not exist when the call started
FreeAttempts == {i \in 0..(maximumAttempts - 1) : CandidatePath(i) \notin DOMAIN fsBefore}

FirstFree == CHOOSE i \in FreeAttempts : \A k \in FreeAttempts : i <= k

\* C9: CreateUniqueDirectory tries name, name1, name2, ... in that order,
\* creates and returns the first candidate that does not already exist, never
\* returns a path that existed before the call, and returns an error and
\* creates nothing if all maximumAttempts candidates exist (0 included).
CexC9 ==
    created # NotCalled =>
        IF FreeAttempts = {}
            THEN created.err /\ fs = fsBefore
            ELSE /\ ~created.err
                 /\ created.path = CandidatePath(FirstFree)
                 /\ created.path \notin DOMAIN fsBefore
                 /\ created.path \in DOMAIN fs
                 /\ fs[created.path] = "dir"

\* C9 as amended: the first candidate that does not exist is the only one the
\* call tries to create; it is returned if MkdirAll succeeds and an error is
\* returned if MkdirAll fails.
ThmC9 ==
    created # NotCalled =>
        /\ FreeAttempts = {} => created.err /\ fs = fsBefore
        /\ ~created.err =>
            /\ FreeAttempts # {}
            /\ created.path = CandidatePath(FirstFree)
            /\ created.path \notin DOMAIN fsBefore
            /\ created.path \in DOMAIN fs
            /\ fs[created.path] = "dir"
        /\ \A x \in DOMAIN fsBefore : x \in DOMAIN fs /\ fs[x] = fsBefore[x]
        /\ (created.err /\ FreeAttempts # {}) =>
            /\ fs = fsBefore
            /\ ~writable \/ (dir \in DOMAIN fsBefore /\ fsBefore[dir] = "file")

\* the first two candidates existed, one of them as a file, and the third was
\* created and returned
WitC9 ==
    /\ ~created.err
    /\ CandidatePath(0) \in DOMAIN fsBefore
    /\ CandidatePath(1) \in DOMAIN fsBefore
    /\ fsBefore[CandidatePath(1)] = "file"
    /\ created.path = CandidatePath(2)
    /\ created.path \in DOMAIN fs

(***************************************************************************)
(* Properties of IsSubPath                                                 *)
(***************************************************************************)
IsPrefixOf(b, t) == Len(b) <= Len(t) /\ SubSeq(t, 1, Len(b)) = b

\* path is basePath itself or lies underneath it
Under(p, base) ==
    /\ p.abs = base.abs
    /\ IsPrefixOf(base.comps, p.comps)
    /\ \A n \in (Len(base.comps) + 1)..Len(p.comps) : p.comps[n] # ".."

\* C10: IsSubPath returns true if path is basePath itself or lies underneath
\* basePath and false otherwise, in particular for the parent directory of
\* basePath and any other ancestor or sibling.
CexC10 ==
    subPath # "none" => (subPath = "true") = Under(path, basePath)

(***************************************************************************)
(* Properties of IsZero on pointers to structs and on defined types        *)
(***************************************************************************)
\* C15: IsZero returns true for a nil pointer of every pointer type, a nil
\* pointer to a struct included, so that PickHasValue(nil struct pointer,
\* non-nil pointer) returns the non-nil pointer.
CexC15 ==
    /\ (call = "IsZero" /\ v.t \in PtrTypes /\ v.i = 0) => retZero
    /\ (/\ call = "PickHasValue"
        /\ T \in OtherPtrTypes
        /\ Len(values) = 2
        /\ values[1].i = 0
        /\ values[2].i # 0) => ret = values[2]

\* C16: for a value of a defined type whose underlying type is a primitive
\* (DateLayout, defined as a string) IsZero returns true if and only if the
\* value equals the zero value of that type.
CexC16 ==
    (call = "IsZero" /\ v.t \in DefinedTypes) => retZero = (v = ZeroOf(v.t))

(***************************************************************************)
(* Properties of WaitForFileExists                                         *)
(***************************************************************************)
\* C11: WaitForFileExists returns true if the file exists within the timeout
\* (also when it exists already at the call) and false otherwise, and it
\* returns no later than the expiry of the timeout timer.
CexC11 ==
    waitRet \in {"true", "false"} =>
        /\ (waitRet = "true") = existed
        /\ now <= timeout

(***************************************************************************)
(* Properties of CopyDirPreserve                                           *)
(***************************************************************************)
\* every file dst had before the call is still there with the same content
Preserved ==
    \A q \in DOMAIN dstBefore :
        dstBefore[q].kind = "file" => (q \in DOMAIN dstTree /\ dstTree[q] = dstBefore[q])

\* every file of src whose path did not exist in dst is in dst with src's content
Completed ==
    \A q \in DOMAIN srcTree :
        (q # <<>> /\ srcTree[q].kind = "file" /\ q \notin DOMAIN dstBefore) =>
            (q \in DOMAIN dstTree /\ dstTree[q] = srcTree[q])

\* C12: CopyDirPreserve copies a file only if dst has no file of that relative
\* path: every file of dst keeps its content, at every depth, and every
\* non-symlink file of src that was missing in dst is in dst afterwards with
\* the source's content.
CexC12 ==
    copyRet \in {"nil", "error"} => (Preserved /\ Completed)

\* C12 as amended: every file of dst keeps its content, and when the call
\* returns nil every non-symlink file of src that was missing in dst is in dst
\* with the source's content.
ThmC12 ==
    copyRet \in {"nil", "error"} =>
        /\ Preserved
        /\ copyRet = "nil" => Completed
        /\ \A q \in DOMAIN dstBefore : q \in DOMAIN dstTree

\* a nested file of dst was kept although src has a file of that path, and a
\* file three levels down was copied
WitC12 ==
    /\ copyRet = "nil"
    /\ <<"a", "b">> \in DOMAIN dstBefore
    /\ <<"a", "b">> \in DOMAIN srcTree
    /\ srcTree[<<"a", "b">>] = FileNode("src")
    /\ dstTree[<<"a", "b">>] = FileNode("dst")
    /\ <<"a", "a", "a">> \notin DOMAIN dstBefore
    /\ <<"a", "a", "a">> \in DOMAIN dstTree
    /\ dstTree[<<"a", "a", "a">>] = FileNode("src")

(***************************************************************************)
(* Properties of FindProjectRoot                                           *)
(***************************************************************************)
\* FindProjectRoot runs to its return once called
SpecRootFair == SpecRoot /\ WF_vars(NextRoot)

MarkedAncestors == Ancestors(cwd) \cap markerDirs

\* C13: FindProjectRoot returns the nearest directory, the working directory
\* or its closest ancestor, that contains markerFile; it returns "project root
\* not found" only when no directory up to the root contains it; and the walk
\* always terminates.
ThmC13 ==
    /\ [](rootPc = "done" /\ ~getwdFails =>
            IF MarkedAncestors = {}
                THEN rootRet.err = "project root not found"
                ELSE /\ rootRet.err = "nil"
                     /\ rootRet.path \in MarkedAncestors
                     /\ \A d \in MarkedAncestors : Len(d) <= Len(rootRet.path))
    /\ [](rootPc = "done" /\ getwdFails => rootRet.err = "getwd")
    /\ <>(rootPc = "done")

\* two ancestors hold the marker and the nearer one, not the root, is returned
WitC13 ==
    /\ rootPc = "done"
    /\ Len(cwd) = MaxDepth
    /\ <<>> \in markerDirs
    /\ SubSeq(cwd, 1, 1) \in markerDirs
    /\ Append(cwd, "a") \in markerDirs
    /\ cwd \notin markerDirs
    /\ SubSeq(cwd, 1, 2) \notin markerDirs
    /\ rootRet = [path |-> SubSeq(cwd, 1, 1), err |-> "nil"]

(***************************************************************************)
(* Properties of ValidateStructFields                                      *)
(***************************************************************************)
\* some required field is empty, at any depth of required struct fields
RECURSIVE SomeRequiredEmpty(_)
SomeRequiredEmpty(flds) ==
    \E n \in 1..Len(flds) :
        /\ Required(flds[n])
        /\ \/ IsStructFieldEmpty(flds[n])
           \/ flds[n].kind = "struct" /\ SomeRequiredEmpty(flds[n].fields)

\* C14: ValidateStructFields returns a non-nil error if and only if some field
\* whose required tag is absent or "true" is empty according to
\* IsStructFieldEmpty, at any depth of required nested struct fields; fields
\* tagged required:"false" never cause an error; a non-struct input other
\* than a pointer to a struct always yields an error.
CexC14 ==
    validRet \in {"nil", "error", "panic"} =>
        IF input.kind = "struct" \/ PointsToStruct(input)
            THEN (validRet = "error") = SomeRequiredEmpty(input.fields)
            ELSE validRet = "error"

(***************************************************************************)
(* Properties of MoveFile                                                  *)
(***************************************************************************)
\* C17: whenever MoveFile returns nil, dst exists and holds exactly what src
\* held before the call, for every pair of paths, src == dst included; and
\* whenever it returns an error before the copy has completed, src still
\* exists with its original content.
CexC17 ==
    /\ moveRet = "nil" =>
        /\ moveDst \in DOMAIN disk
        /\ disk[moveDst] = diskBefore[moveSrc]
    /\ (moveRet \in {"open", "create", "copy"} /\ moveSrc \in DOMAIN diskBefore) =>
        /\ moveSrc \in DOMAIN disk
        /\ disk[moveSrc] = diskBefore[moveSrc]

====
